---- MODULE Spec2Model ----
(***************************************************************************)
(* Model of torchchat/cli/builder.py: BuilderArgs construction and the     *)
(* from_args / from_speculative_args constructors, TokenizerArgs probing   *)
(* and validate_model, the four-shard checkpoint merge of _load_checkpoint *)
(* and the strategy dispatch of _initialize_model.                         *)
(*                                                                         *)
(* Strings that the code inspects character by character (path names,     *)
(* checkpoint keys, params_table) are tuples of one-character strings.     *)
(* A filesystem path is a record: the name of its parent directory, its    *)
(* own last component, whether it ends in "/", and what the filesystem     *)
(* holds at that path (a file, a directory, or nothing).                   *)
(***************************************************************************)
EXTENDS Integers, Sequences, FiniteSets, TLC

VARIABLES
    pc,         \* "start", "constructed" or "failed" (constructor raised)
    origin,     \* which constructor ran: "init", "from_args", "from_speculative_args"
    given,      \* the raw inputs handed to that constructor
    ba,         \* the BuilderArgs object (NoConfig when none exists)
    ba0,        \* the BuilderArgs fields right after construction
    ctorErr,    \* the error the constructor raised ("none" if it returned)
    loads,      \* number of _initialize_model calls made so far
    last,       \* outcome of the most recent _initialize_model call
    tok,        \* the TokenizerArgs object
    tokEnv,     \* which tokenizer formats can load the tokenizer path
    tokRes,     \* outcome of the most recent validate_model call
    cps,        \* the four shard mappings read by _load_checkpoint
    checkpoint  \* the merged mapping _load_checkpoint returns

vars == <<pc, origin, given, ba, ba0, ctorErr, loads, last, tok, tokEnv, tokRes,
          cps, checkpoint>>

builderVars == <<pc, origin, given, ba, ba0, ctorErr, loads, last>>
tokVars == <<tok, tokEnv, tokRes>>
mergeVars == <<cps, checkpoint>>

----------------------------------------------------------------------------
(* Character strings *)

UpperLetters ==
    <<"A","B","C","D","E","F","G","H","I","J","K","L","M",
      "N","O","P","Q","R","S","T","U","V","W","X","Y","Z">>

LowerLetters ==
    <<"a","b","c","d","e","f","g","h","i","j","k","l","m",
      "n","o","p","q","r","s","t","u","v","w","x","y","z">>

LowerChar(c) ==
    IF \E i \in 1..26 : UpperLetters[i] = c
    THEN LowerLetters[CHOOSE i \in 1..26 : UpperLetters[i] = c]
    ELSE c

\* str.lower()
lower(s) == [i \in 1..Len(s) |-> LowerChar(s[i])]

\* sub in s
Contains(sub, s) ==
    \E i \in 1..(Len(s) - Len(sub) + 1) : SubSeq(s, i, i + Len(sub) - 1) = sub

\* s.endswith(suf)
EndsWith(s, suf) ==
    /\ Len(s) >= Len(suf)
    /\ SubSeq(s, Len(s) - Len(suf) + 1, Len(s)) = suf

S_chat == <<"c","h","a","t">>
S_instruct == <<"i","n","s","t","r","u","c","t">>
S_Tune == <<"T","u","n","e">>
S_wo_weight == <<"w","o",".","w","e","i","g","h","t">>
S_w2_weight == <<"w","2",".","w","e","i","g","h","t">>

----------------------------------------------------------------------------
(* Paths and the other optional values *)

\* None in a path-typed field
None == [dir |-> <<>>, base |-> <<>>, kind |-> "None", slash |-> FALSE]

\* None in a name-typed field (params_table): the code only tests its
\* truthiness and endswith, for which None and "" behave alike
NoName == <<>>

\* None in max_seq_length: the code only tests its truthiness
NoInt == 0

P(dir, base, kind) == [dir |-> dir, base |-> base, kind |-> kind, slash |-> FALSE]

\* bool(p) of an Optional[Path]
Truthy(p) == p # None

\* Path.is_file / os.path.isfile
is_file(p) == p.kind = "file"

\* Path.is_dir
is_dir(p) == p.kind = "dir"

N_base == <<"b","a","s","e">>
N_Chat7b == <<"7","b","-","C","h","a","t">>
N_Instruct == <<"8","B","-","I","n","s","t","r","u","c","t">>
N_model_pth == <<"m","o","d","e","l",".","p","t","h">>
N_chat_pth == <<"c","h","a","t",".","p","t","h">>
N_draft_pth == <<"d","r","a","f","t",".","p","t","h">>
N_model_so == <<"m","o","d","e","l",".","s","o">>
N_model_pt2 == <<"m","o","d","e","l",".","p","t","2">>
N_model_pte == <<"m","o","d","e","l",".","p","t","e">>
N_model_gguf == <<"m","o","d","e","l",".","g","g","u","f">>
N_params == <<"p","a","r","a","m","s">>
N_out == <<"o","u","t">>
N_dcp == <<"d","c","p">>
N_llama3 == <<"l","l","a","m","a","3">>
N_MetaTune == <<"M","e","t","a","T","u","n","e">>

Devices == {"cpu", "cuda", "mps"}

----------------------------------------------------------------------------
(* BuilderArgs *)

NoConfig == [exists |-> FALSE]

NoKwargs == [none |-> TRUE, d |-> {}]

\* the dataclass defaults
BuilderDefaults ==
    [ checkpoint_path |-> None, checkpoint_dir |-> None, dcp_dir |-> None,
      params_path |-> None, params_table |-> NoName, gguf_path |-> None,
      gguf_kwargs |-> NoKwargs, dso_path |-> None, aoti_package_path |-> None,
      pte_path |-> None, device |-> "None", precision |-> "float32",
      setup_caches |-> None, distributed |-> FALSE, pp |-> 1, tp |-> 1,
      chpt_from |-> "hf", is_chat_model |-> FALSE, prefill_possible |-> FALSE,
      dynamic_shapes |-> FALSE, max_seq_length |-> NoInt ]

SourceFields ==
    {"checkpoint_path", "checkpoint_dir", "gguf_path", "dso_path",
     "aoti_package_path", "pte_path"}

\* the device chosen when none is given
DefaultDevice(cuda_available) == IF cuda_available THEN "cuda" ELSE "cpu"

\* HasValidSource with the is_file test of dso_path left out
HasValidSource_NoDsoTest(s) ==
    \/ (Truthy(s.checkpoint_path) /\ is_file(s.checkpoint_path))
    \/ (Truthy(s.checkpoint_dir) /\ is_dir(s.checkpoint_dir))
    \/ (Truthy(s.gguf_path) /\ is_file(s.gguf_path))
    \/ Truthy(s.dso_path)
    \/ (Truthy(s.aoti_package_path) /\ is_file(s.aoti_package_path))
    \/ (Truthy(s.pte_path) /\ is_file(s.pte_path))

\* the condition negated in the first check of __post_init__
HasValidSource(s) ==
    \/ (Truthy(s.checkpoint_path) /\ is_file(s.checkpoint_path))
    \/ (Truthy(s.checkpoint_dir) /\ is_dir(s.checkpoint_dir))
    \/ (Truthy(s.gguf_path) /\ is_file(s.gguf_path))
    \/ (Truthy(s.dso_path) /\ is_file(s.dso_path))
    \/ (Truthy(s.aoti_package_path) /\ is_file(s.aoti_package_path))
    \/ (Truthy(s.pte_path) /\ is_file(s.pte_path))

\* BothPackageAndPte testing dso_path in place of aoti_package_path
BothPackageAndPte_WrongField(s) == Truthy(s.dso_path) /\ Truthy(s.pte_path)

\* the condition of the second check of __post_init__
BothPackageAndPte(s) == Truthy(s.aoti_package_path) /\ Truthy(s.pte_path)

\* the condition under which checkpoint/GGUF sources are reported as ignored
HasCompiledSource(s) ==
    Truthy(s.dso_path) \/ Truthy(s.pte_path) \/ Truthy(s.aoti_package_path)

\* the warnings printed for ignored sources
IgnoredWarnings(s) ==
    {f \in {"checkpoint_path", "checkpoint_dir", "gguf_path"} : Truthy(s[f])}

E_NoSource == "RuntimeError: need to specified a valid checkpoint path"
E_Both == "RuntimeError: specify either AOTI Package path or PTE path"
E_Unbound == "UnboundLocalError: dcp_dir"

\* BuilderArgs.__post_init__ on the fields s: the error raised ("none" when
\* it returns), the resulting object and the warnings printed
PostInit(s, cuda_available) ==
    LET s1 == IF s.device = "None"
              THEN [s EXCEPT !.device = DefaultDevice(cuda_available)]
              ELSE s
    IN  IF ~HasValidSource(s1)
        THEN [err |-> E_NoSource, obj |-> NoConfig, warned |-> {}]
        ELSE IF BothPackageAndPte(s1)
        THEN [err |-> E_Both, obj |-> NoConfig, warned |-> {}]
        ELSE IF HasCompiledSource(s1)
        THEN [err |-> "none", obj |-> s1, warned |-> IgnoredWarnings(s1)]
        ELSE [err |-> "none", obj |-> [s1 EXCEPT !.prefill_possible = TRUE],
              warned |-> {}]

----------------------------------------------------------------------------
(* BuilderArgs.from_args *)

\* resolve_model_config: the registry record of a named model
resolve_model_config(model) ==
    CASE model = "llama3-instruct" ->
            [name |-> N_Instruct, checkpoint_file |-> N_model_pth,
             transformer_params_key |-> NoName]
      [] model = "llama3-base" ->
            [name |-> N_base, checkpoint_file |-> N_model_pth,
             transformer_params_key |-> N_llama3]

\* name_to_dtype: the precision a dtype name denotes on a device
name_to_dtype(name, device) ==
    CASE name = "float32" -> "float32"
      [] name = "fast16" -> "float16"
      [] name = "fast" -> IF device = "cuda" THEN "bfloat16" ELSE "float16"

\* args.dtype.startswith("fast")
StartsWithFast(name) == name \in {"fast", "fast16"}

\* a or b or c on optional paths
Or3(a, b, c) == IF Truthy(a) THEN a ELSE IF Truthy(b) THEN b ELSE c

\* the checkpoint path and params table after the named-model override
ResolvedCheckpointPath(args) ==
    IF args.model # "None"
    THEN P(resolve_model_config(args.model).name,
           resolve_model_config(args.model).checkpoint_file, args.model_kind)
    ELSE args.checkpoint_path

ResolvedParamsTable(args) ==
    IF args.model # "None"
    THEN LET mc == resolve_model_config(args.model)
         IN  IF mc.transformer_params_key # NoName
             THEN mc.transformer_params_key ELSE mc.name
    ELSE args.params_table

\* path[:-1] if path.endswith("/")
StripSlash(p) == IF p.slash THEN [p EXCEPT !.slash = FALSE] ELSE p

\* os.path.basename
basename(p) == IF p.slash THEN <<>> ELSE p.base

\* os.path.basename(os.path.dirname(p)) of a path without trailing slash
parentname(p) == p.dir

\* InspectedName without the lower-casing
InspectedName_NoLower(path) ==
    LET p == StripSlash(path)
    IN  IF is_file(p) THEN parentname(p) ELSE basename(p)

\* the lower-cased name the chat heuristic looks at for one path
InspectedName(path) ==
    LET p == StripSlash(path)
    IN  lower(IF is_file(p) THEN parentname(p) ELSE basename(p))

\* "chat" in path_basename or "instruct" in path_basename
LooksLikeChat(name) == Contains(S_chat, name) \/ Contains(S_instruct, name)

\* the paths the chat heuristic walks over
ChatPaths(args) ==
    << ResolvedCheckpointPath(args),
       IF args.has_checkpoint_dir THEN args.checkpoint_dir ELSE None,
       args.dso_path, args.pte_path, args.aoti_package_path, args.gguf_path >>

\* the is_chat_model value from_args computes
ComputeIsChat(args) ==
    IF args.is_chat_model
    THEN TRUE
    ELSE \E i \in 1..6 :
            /\ ChatPaths(args)[i] # None
            /\ LooksLikeChat(InspectedName(ChatPaths(args)[i]))

\* the precision from_args computes
ComputeDtype(args) ==
    IF Truthy(args.output_pte_path) /\ StartsWithFast(args.dtype)
    THEN IF args.dtype = "fast" THEN "float32" ELSE "float16"
    ELSE name_to_dtype(args.dtype, args.device)

\* the keyword arguments from_args passes to the constructor
FromArgsFields(args) ==
    [ checkpoint_dir |-> IF args.has_checkpoint_dir THEN args.checkpoint_dir ELSE None,
      checkpoint_path |-> ResolvedCheckpointPath(args),
      dcp_dir |-> args.dcp_dir,
      params_path |-> args.params_path,
      params_table |-> ResolvedParamsTable(args),
      gguf_path |-> args.gguf_path,
      gguf_kwargs |-> NoKwargs,
      dso_path |-> args.dso_path,
      aoti_package_path |-> args.aoti_package_path,
      pte_path |-> args.pte_path,
      device |-> args.device,
      precision |-> ComputeDtype(args),
      setup_caches |-> Or3(args.output_dso_path, args.output_pte_path,
                           args.output_aoti_package_path),
      distributed |-> args.distributed,
      pp |-> args.pp,
      tp |-> args.tp,
      chpt_from |-> args.chpt_from,
      is_chat_model |-> ComputeIsChat(args),
      prefill_possible |-> BuilderDefaults.prefill_possible,
      dynamic_shapes |-> args.dynamic_shapes,
      max_seq_length |-> args.max_seq_length ]

\* BuilderArgs.from_args: error, object and warnings, as PostInit
FromArgs(args, cuda_available) ==
    IF ~args.has_dcp_dir
    THEN [err |-> E_Unbound, obj |-> NoConfig, warned |-> {}]
    ELSE PostInit(FromArgsFields(args), cuda_available)

\* the field resets of from_speculative_args
StripForDraft(b, args) ==
    [b EXCEPT !.checkpoint_dir = None,
              !.checkpoint_path = args.draft_checkpoint_path,
              !.gguf_path = None,
              !.dso_path = None,
              !.aoti_package_path = None,
              !.pte_path = None]

\* BuilderArgs.from_speculative_args
FromSpeculativeArgs(args, cuda_available) ==
    LET r == FromArgs(args, cuda_available)
    IN  IF r.err # "none" THEN r ELSE [r EXCEPT !.obj = StripForDraft(r.obj, args)]

----------------------------------------------------------------------------
(* The loading pipeline.  A call is evaluated on a frame: the BuilderArgs  *)
(* object b as mutated so far, the external calls made so far (ops), the   *)
(* devices handed to them (devs), the branches of _initialize_model that   *)
(* it entered (entered) and the exception in flight (err).  The            *)
(* environment env names the external call that fails in this run, if any, *)
(* and the device recorded in the AOTI package's metadata.                 *)

NoErr == [type |-> "none", at |-> "", names |-> ""]

Raised(m) == m.err # NoErr

Frame(b) == [b |-> b, ops |-> <<>>, devs |-> {}, entered |-> <<>>, err |-> NoErr]

Raise(m, type, at) ==
    IF Raised(m) THEN m ELSE [m EXCEPT !.err = [type |-> type, at |-> at, names |-> ""]]

\* an external call: it fails when the environment says so or when it must
Ext(m, op, env, must_fail) ==
    IF Raised(m) THEN m
    ELSE [m EXCEPT !.ops = Append(@, op),
                   !.err = IF must_fail \/ env.failAt = op
                           THEN [type |-> "Exception", at |-> op, names |-> ""]
                           ELSE NoErr]

\* an external call that is given the configured device
ExtDev(m, op, env, must_fail) ==
    IF Raised(m) THEN m
    ELSE [Ext(m, op, env, must_fail) EXCEPT !.devs = @ \cup {m.b.device}]

\* TryWrap that lets the exception of the try body through as it is
TryWrap_Raw(before, after, names) == after

\* try: ... except: raise RuntimeError(f"Failed to load ... {path}")
TryWrap(before, after, names) ==
    IF ~Raised(before) /\ Raised(after)
    THEN [after EXCEPT !.err = [type |-> "RuntimeError", at |-> after.err.at,
                                names |-> names]]
    ELSE after

\* is_cuda_or_cpu_device / is_cpu_device of torchchat.utils.build_utils
is_cuda_or_cpu_device(device) == device \in {"cpu", "cuda"}
is_cpu_device(device) == device = "cpu"

\* _set_gguf_kwargs
SetGgufKwargs(m, is_et, context) ==
    IF Raised(m) THEN m
    ELSE IF context \notin {"export", "generate"}
    THEN Raise(m, "AssertionError", "_set_gguf_kwargs")
    ELSE IF ~m.b.gguf_kwargs.none
    THEN Raise(m, "AssertionError", "_set_gguf_kwargs")
    ELSE IF m.b.gguf_path = None
    THEN m
    ELSE [m EXCEPT !.b.gguf_kwargs =
            [none |-> FALSE,
             d |-> IF is_et THEN {<<"load_as_quantized", FALSE>>} ELSE {}]]

\* _unset_gguf_kwargs
UnsetGgufKwargs(m) ==
    IF Raised(m) THEN m ELSE [m EXCEPT !.b.gguf_kwargs = NoKwargs]

\* the first block of _initialize_model
MaybeSetGgufKwargs(m) ==
    IF Truthy(m.b.gguf_path) /\ HasCompiledSource(m.b)
    THEN LET is_dso == m.b.dso_path # None
             is_aoti_package == m.b.aoti_package_path # None
             is_pte == m.b.pte_path # None
         IN  IF is_dso /\ is_aoti_package /\ is_pte
             THEN Raise(m, "AssertionError", "_initialize_model")
             ELSE IF ~m.b.gguf_kwargs.none
             THEN Raise(m, "AssertionError", "_initialize_model")
             ELSE SetGgufKwargs(m, is_pte, "generate")
    ELSE m

\* _load_model_gguf
LoadModelGguf(m, env) ==
    IF Raised(m) THEN m
    ELSE IF ~Truthy(m.b.gguf_path)
    THEN Raise(m, "AssertionError", "_load_model_gguf")
    ELSE Ext(m, "Model.from_gguf", env, ~is_file(m.b.gguf_path))

\* _init_model_on_meta_device
InitModelOnMetaDevice(m, env) ==
    IF Raised(m) THEN m
    ELSE IF Truthy(m.b.params_path)
    THEN Ext(m, "Model.from_params", env, ~is_file(m.b.params_path))
    ELSE IF m.b.params_table # NoName
    THEN Ext(m, "Model.from_table", env, FALSE)
    ELSE IF m.b.checkpoint_path = None
    THEN Raise(m, "AttributeError", "_init_model_on_meta_device")
    ELSE Ext(m, "Model.from_name", env, FALSE)

\* DropCheckpointPath that clears checkpoint_dir as well
DropCheckpointPath_Both(m) ==
    [m EXCEPT !.b.checkpoint_path = None, !.b.checkpoint_dir = None]

\* the builder_args.checkpoint_path assignment of the checkpoint_dir branch
DropCheckpointPath(m) == [m EXCEPT !.b.checkpoint_path = None]

\* _load_checkpoint
LoadCheckpoint(m, env) ==
    IF Raised(m) THEN m
    ELSE IF m.b.params_table # NoName /\ EndsWith(m.b.params_table, S_Tune)
    THEN Ext(Ext(m, "torch.load(checkpoint_path)", env, ~is_file(m.b.checkpoint_path)),
             "meta_to_tune", env, FALSE)
    ELSE IF m.b.checkpoint_dir # None
    THEN ExtDev(DropCheckpointPath(m), "torch.load(checkpoint_dir)", env,
                ~is_dir(m.b.checkpoint_dir))
    ELSE ExtDev(m, "torch.load(checkpoint_path)", env, ~is_file(m.b.checkpoint_path))

\* _load_model_default
LoadModelDefault(m, env) ==
    IF Raised(m) THEN m
    ELSE IF Truthy(m.b.gguf_path)
    THEN Raise(m, "AssertionError", "_load_model_default")
    ELSE Ext(LoadCheckpoint(InitModelOnMetaDevice(m, env), env),
             "load_state_dict", env, FALSE)

\* _load_model
LoadModel(m, env) ==
    IF Raised(m) THEN m
    ELSE ExtDev(IF Truthy(m.b.gguf_path)
                THEN LoadModelGguf(m, env)
                ELSE LoadModelDefault(m, env),
                "model.to(device)", env, FALSE)

\* with measure_time(...): model = _load_model(...); device_sync(...)
TimedLoad(m, env) == ExtDev(LoadModel(m, env), "device_sync", env, FALSE)

\* Downgrade that leaves the device as configured
Downgrade_Never(m, supported) == m

\* builder_args.device = "cpu" when the artifact kind does not support it
Downgrade(m, supported) ==
    IF Raised(m) \/ supported THEN m ELSE [m EXCEPT !.b.device = "cpu"]

\* builder_args.device = metadata["AOTI_DEVICE_KEY"]
AdoptPackageDevice(m, env) ==
    IF Raised(m) THEN m ELSE [m EXCEPT !.b.device = env.metaDevice]

\* the dso_path branch of _initialize_model
DsoBranch(m, env) ==
    LET m1 == Downgrade(m, is_cuda_or_cpu_device(m.b.device))
        m2 == TimedLoad(m1, env)
    IN  TryWrap(m2, ExtDev(m2, "aot_load", env, ~is_file(m.b.dso_path)), "dso_path")

\* the aoti_package_path branch of _initialize_model
AotiBranch(m, env) ==
    LET m1 == Downgrade(m, is_cuda_or_cpu_device(m.b.device))
        m2 == TimedLoad(m1, env)
        m3 == Ext(m2, "load_package", env, ~is_file(m.b.aoti_package_path))
        m4 == Ext(m3, "get_metadata", env, FALSE)
    IN  TryWrap(m2, AdoptPackageDevice(m4, env), "aoti_package_path")

\* the pte_path branch of _initialize_model
PteBranch(m, env) ==
    LET m1 == Downgrade(m, is_cpu_device(m.b.device))
        m2 == IF Truthy(m1.b.params_path)
              THEN Ext(m1, "ModelArgs.from_params", env, ~is_file(m1.b.params_path))
              ELSE TimedLoad(m1, env)
    IN  TryWrap(m2, Ext(m2, "PTEModel", env, ~is_file(m.b.pte_path)), "pte_path")

\* the default branch of _initialize_model
DefaultBranch(m, quantize, env) ==
    LET m1 == TimedLoad(m, env)
        m2 == IF quantize
              THEN ExtDev(ExtDev(m1, "quantize_model", env, FALSE),
                          "device_sync(quantize)", env, FALSE)
              ELSE m1
        m3 == IF Truthy(m.b.setup_caches)
              THEN ExtDev(m2, "setup_caches", env, FALSE)
              ELSE m2
    IN  Ext(m3, "model.to(dtype)", env, FALSE)

\* the strategy _initialize_model chooses
Branch(b) ==
    IF Truthy(b.dso_path) THEN "dso"
    ELSE IF Truthy(b.aoti_package_path) THEN "aoti"
    ELSE IF Truthy(b.pte_path) THEN "pte"
    ELSE "default"

\* control enters one branch of the if/elif chain of _initialize_model
Enter(m, branch) == [m EXCEPT !.entered = Append(@, branch)]

\* _initialize_model
InitializeModel(b, quantize, env) ==
    LET m0 == MaybeSetGgufKwargs(Frame(b))
    IN  IF Raised(m0) THEN m0
        ELSE CASE Branch(b) = "dso" -> DsoBranch(Enter(m0, "dso"), env)
               [] Branch(b) = "aoti" -> AotiBranch(Enter(m0, "aoti"), env)
               [] Branch(b) = "pte" -> PteBranch(Enter(m0, "pte"), env)
               [] OTHER -> DefaultBranch(Enter(m0, "default"), quantize, env)

----------------------------------------------------------------------------
(* TokenizerArgs *)

Formats == {"tiktoken", "sentencepiece", "hf_tokenizer"}

\* ProbeOrder with the last two formats swapped
ProbeOrder_Swapped == <<"tiktoken", "hf_tokenizer", "sentencepiece">>

\* the order in which __post_init__ tries the formats
ProbeOrder == <<"tiktoken", "sentencepiece", "hf_tokenizer">>

\* the handle each format's constructor returns
Handle(format) ==
    CASE format = "tiktoken" -> "TiktokenTokenizer"
      [] format = "sentencepiece" -> "SentencePieceProcessor"
      [] format = "hf_tokenizer" -> "HFTokenizer"

\* the three assignments that follow a successful constructor
TagsFor(format) ==
    [is_tiktoken |-> format = "tiktoken",
     is_sentencepiece |-> format = "sentencepiece",
     is_hf_tokenizer |-> format = "hf_tokenizer"]

\* the try blocks of __post_init__ from position i on: loadable holds the
\* formats whose import and constructor succeed for the path
RECURSIVE Probe(_, _, _)
Probe(i, loadable, tried) ==
    IF i > Len(ProbeOrder)
    THEN [is_tiktoken |-> FALSE, is_sentencepiece |-> FALSE,
          is_hf_tokenizer |-> FALSE, t |-> "None", tried |-> tried]
    ELSE IF ProbeOrder[i] \in loadable
    THEN [is_tiktoken |-> TagsFor(ProbeOrder[i]).is_tiktoken,
          is_sentencepiece |-> TagsFor(ProbeOrder[i]).is_sentencepiece,
          is_hf_tokenizer |-> TagsFor(ProbeOrder[i]).is_hf_tokenizer,
          t |-> Handle(ProbeOrder[i]), tried |-> Append(tried, ProbeOrder[i])]
    ELSE Probe(i + 1, loadable, Append(tried, ProbeOrder[i]))

\* TokenizerArgs.__post_init__ on the fields f
TokenizerPostInit(f, loadable) ==
    LET r == Probe(1, loadable, <<>>)
    IN  [constructed |-> TRUE, tokenizer_path |-> f.tokenizer_path,
         is_tiktoken |-> r.is_tiktoken, is_sentencepiece |-> r.is_sentencepiece,
         is_hf_tokenizer |-> r.is_hf_tokenizer, t |-> r.t,
         tried |-> r.tried, fields |-> f]

\* sum([...]) of booleans
BoolSum(flags) == Cardinality({i \in 1..Len(flags) : flags[i]})

\* tokenizer_setting_to_name
tokenizer_setting_to_name(tiktoken, tokenizers) ==
    IF tiktoken THEN "TikToken" ELSE IF tokenizers THEN "Tokenizers" ELSE "SentencePiece"

NoModel == [exists |-> FALSE]

\* validate_model whose sentencepiece default forgets use_hf_tokenizer
validate_model_SpDefault(self, model) ==
    IF model = NoModel THEN [err |-> "none"]
    ELSE IF BoolSum(<<self.is_tiktoken, self.is_hf_tokenizer, self.is_sentencepiece>>) # 1
    THEN [err |-> "RuntimeError: no tokenizer was found"]
    ELSE LET use_tiktoken == model.use_tiktoken
             use_hf_tokenizer == model.use_hf_tokenizer
             use_sentencepiece == ~use_tiktoken
         IN  IF \/ (self.is_tiktoken /\ ~use_tiktoken)
                \/ (self.is_hf_tokenizer /\ ~use_hf_tokenizer)
                \/ (self.is_sentencepiece /\ ~use_sentencepiece)
             THEN [err |-> "RuntimeError: model-specified tokenizer does not match",
                   wanted |-> tokenizer_setting_to_name(use_tiktoken, use_hf_tokenizer),
                   provided |-> tokenizer_setting_to_name(self.is_tiktoken,
                                                          self.is_hf_tokenizer)]
             ELSE [err |-> "none"]

\* TokenizerArgs.validate_model: the error raised, "none" when it returns
validate_model(self, model) ==
    IF model = NoModel THEN [err |-> "none"]
    ELSE IF BoolSum(<<self.is_tiktoken, self.is_hf_tokenizer, self.is_sentencepiece>>) # 1
    THEN [err |-> "RuntimeError: no tokenizer was found"]
    ELSE LET use_tiktoken == model.use_tiktoken
             use_hf_tokenizer == model.use_hf_tokenizer
             use_sentencepiece == ~(use_tiktoken \/ use_hf_tokenizer)
         IN  IF \/ (self.is_tiktoken /\ ~use_tiktoken)
                \/ (self.is_hf_tokenizer /\ ~use_hf_tokenizer)
                \/ (self.is_sentencepiece /\ ~use_sentencepiece)
             THEN [err |-> "RuntimeError: model-specified tokenizer does not match",
                   wanted |-> tokenizer_setting_to_name(use_tiktoken, use_hf_tokenizer),
                   provided |-> tokenizer_setting_to_name(self.is_tiktoken,
                                                          self.is_hf_tokenizer)]
             ELSE [err |-> "none"]

----------------------------------------------------------------------------
(* The checkpoint_dir branch of _load_checkpoint.  A tensor is a matrix, a  *)
(* tuple of rows; its entries are integers counting units of 1e-8, the      *)
(* absolute tolerance of torch.allclose.                                    *)

\* the number of shard files read
NumShards == 4

\* rtol = 1e-5 is one part in RtolInverse
RtolInverse == 100000

Abs(x) == IF x < 0 THEN -x ELSE x

\* |a - b| <= atol + rtol * |b| on one entry
EntryClose(a, b) == Abs(a - b) * RtolInverse <= RtolInverse + Abs(b)

\* torch.allclose on two matrices of the same shape
allclose(x, y) ==
    \A i \in 1..Len(x) : \A j \in 1..Len(x[i]) : EntryClose(x[i][j], y[i][j])

RECURSIVE Flatten(_)
Flatten(seqs) == IF seqs = <<>> THEN <<>> ELSE Head(seqs) \o Flatten(Tail(seqs))

\* torch.cat(values, dim)
cat(values, dim) ==
    IF dim = 0
    THEN Flatten(values)
    ELSE [i \in 1..Len(values[1]) |->
            Flatten([v \in 1..Len(values) |-> values[v][i]])]

\* CatDim that forgets the w2.weight suffix
CatDim_WoOnly(key) == IF EndsWith(key, S_wo_weight) THEN 1 ELSE 0

\* the axis along which a partitioned key is concatenated
CatDim(key) ==
    IF EndsWith(key, S_wo_weight) \/ EndsWith(key, S_w2_weight) THEN 1 ELSE 0

\* the merged value of one key
MergeKey(shards, key) ==
    IF ~allclose(shards[1][key], shards[2][key])
    THEN cat(<<shards[1][key], shards[2][key], shards[3][key], shards[4][key]>>,
             CatDim(key))
    ELSE shards[1][key]

\* a lookup cps[i][key] of the loop raises KeyError
MergeKeyError(shards, key) ==
    \/ key \notin DOMAIN shards[2]
    \/ /\ ~allclose(shards[1][key], shards[2][key])
       /\ (key \notin DOMAIN shards[3] \/ key \notin DOMAIN shards[4])

\* the loop over cps[0].keys()
Merge(shards) ==
    IF \E key \in DOMAIN shards[1] : MergeKeyError(shards, key)
    THEN [err |-> "KeyError", out |-> <<>>]
    ELSE [err |-> "none",
          out |-> [key \in DOMAIN shards[1] |-> MergeKey(shards, key)]]

----------------------------------------------------------------------------
(* Inputs *)

\* the number of _initialize_model calls made on one BuilderArgs
MaxLoads == 2

\* fields handed directly to the BuilderArgs constructor
CtorInputs ==
    { [BuilderDefaults EXCEPT
          !.checkpoint_path = cp, !.checkpoint_dir = cd, !.gguf_path = gg,
          !.dso_path = dso, !.aoti_package_path = pkg, !.pte_path = pte,
          !.dcp_dir = aux[1], !.params_path = aux[2], !.params_table = aux[3]] :
        cp \in {None, P(N_base, N_model_pth, "file"), P(N_base, N_model_pth, "dir")},
        cd \in {None, P(N_base, N_Instruct, "dir"), P(N_base, N_Instruct, "file")},
        gg \in {None, P(N_base, N_model_gguf, "file"), P(N_base, N_model_gguf, "missing")},
        dso \in {None, P(N_base, N_model_so, "file"), P(N_base, N_model_so, "missing")},
        pkg \in {None, P(N_base, N_model_pt2, "file"), P(N_base, N_model_pt2, "dir")},
        pte \in {None, P(N_base, N_model_pte, "file"), P(N_base, N_model_pte, "missing")},
        aux \in {<<None, None, NoName>>,
                 <<P(N_base, N_dcp, "dir"), P(N_base, N_params, "file"), N_llama3>>} }

ModelChoices == {<<"None", "missing">>, <<"llama3-instruct", "file">>}

CheckpointChoices ==
    {None, P(N_base, N_chat_pth, "file"), P(N_Chat7b, N_model_pth, "file")}

CheckpointDirChoices ==
    {<<FALSE, None>>,
     <<TRUE, [dir |-> N_base, base |-> N_Instruct, kind |-> "dir", slash |-> TRUE]>>}

\* dtype, output_pte_path, output_dso_path, device
TargetChoices ==
    {<<"float32", None, None, "cpu">>,
     <<"float32", None, None, "mps">>,
     <<"fast", None, None, "cuda">>,
     <<"fast", P(N_out, N_model_pte, "missing"), None, "cuda">>,
     <<"fast16", P(N_out, N_model_pte, "missing"), None, "mps">>,
     <<"float32", None, P(N_out, N_model_so, "missing"), "cuda">>}

Misc0 == [distributed |-> FALSE, pp |-> 1, tp |-> 1, chpt_from |-> "hf",
          dynamic_shapes |-> FALSE, max_seq_length |-> NoInt]

Misc1 == [distributed |-> TRUE, pp |-> 2, tp |-> 2, chpt_from |-> "dcp",
          dynamic_shapes |-> TRUE, max_seq_length |-> 128]

\* params_path, params_table and the remaining settings
ParamChoices ==
    {<<None, NoName, Misc0>>, <<P(N_base, N_params, "file"), NoName, Misc1>>,
     <<None, N_MetaTune, Misc0>>}

\* one argparse namespace
Args(mk, cp, cd, dcp, pr, gg, dso, pte, pkg, flag, tg) ==
    [ model |-> mk[1], model_kind |-> mk[2],
      model_directory |-> N_base,
      checkpoint_path |-> cp,
      has_checkpoint_dir |-> cd[1], checkpoint_dir |-> cd[2],
      has_dcp_dir |-> dcp, dcp_dir |-> None,
      params_path |-> pr[1], params_table |-> pr[2],
      gguf_path |-> gg, dso_path |-> dso, pte_path |-> pte,
      aoti_package_path |-> pkg,
      is_chat_model |-> flag,
      dtype |-> tg[1], output_pte_path |-> tg[2], output_dso_path |-> tg[3],
      output_aoti_package_path |-> None,
      device |-> tg[4],
      distributed |-> pr[3].distributed, pp |-> pr[3].pp, tp |-> pr[3].tp,
      chpt_from |-> pr[3].chpt_from, dynamic_shapes |-> pr[3].dynamic_shapes,
      max_seq_length |-> pr[3].max_seq_length,
      draft_checkpoint_path |-> P(N_base, N_draft_pth, "file") ]

\* namespaces that vary the source paths and the chat flag
PathArgs ==
    { Args(mk, cp, cd, TRUE, <<None, NoName, Misc0>>, gg, dso, pte, pkg, flag,
           <<"float32", None, None, "cpu">>) :
        mk \in ModelChoices, cp \in CheckpointChoices, cd \in CheckpointDirChoices,
        gg \in {None, P(N_base, N_model_gguf, "file")},
        dso \in {None, P(N_base, N_model_so, "file")},
        pte \in {None, P(N_Chat7b, N_model_pte, "missing")},
        pkg \in {None, P(N_base, N_model_pt2, "file")},
        flag \in BOOLEAN }

\* namespaces that vary the target device, the precision, the params source
\* and the compiled artifacts
TargetArgs ==
    { Args(<<"None", "missing">>, cp, <<FALSE, None>>, dcp, pr, gg, dso, pte, pkg,
           FALSE, tg) :
        cp \in {None, P(N_Chat7b, N_model_pth, "file")},
        dcp \in BOOLEAN,
        pr \in ParamChoices,
        gg \in {None, P(N_base, N_model_gguf, "file")},
        dso \in {None, P(N_base, N_model_so, "file")},
        pte \in {None, P(N_base, N_model_pte, "file")},
        pkg \in {None, P(N_base, N_model_pt2, "file")},
        tg \in TargetChoices }

\* the argparse namespaces handed to from_args and from_speculative_args
ArgsSet == PathArgs \cup TargetArgs

\* the environments of one _initialize_model call: an external call can fail
\* only if the call makes it, and the package metadata is read only by the
\* aoti_package_path branch
EnvsFor(b, quantize) ==
    LET made == InitializeModel(b, quantize, [failAt |-> "none", metaDevice |-> "cpu"]).ops
    IN  [failAt : {"none"} \cup {made[i] : i \in 1..Len(made)},
         metaDevice : IF Branch(b) = "aoti" THEN Devices ELSE {"cpu"}]

----------------------------------------------------------------------------
(* Actions *)

NoCall == [called |-> FALSE]

NoTok == [constructed |-> FALSE]

Idle == [err |-> "idle"]

BuilderInit ==
    /\ pc = "start"
    /\ origin = "none"
    /\ given = NoConfig
    /\ ba = NoConfig
    /\ ba0 = NoConfig
    /\ ctorErr = "none"
    /\ loads = 0
    /\ last = NoCall

TokIdle == tok = NoTok /\ tokEnv = {} /\ tokRes = Idle

MergeIdle == cps = <<>> /\ checkpoint = Idle

\* the result r of a constructor becomes the program's BuilderArgs
Constructed(r, how, inputs) ==
    /\ pc = "start"
    /\ pc' = IF r.err = "none" THEN "constructed" ELSE "failed"
    /\ origin' = how
    /\ given' = inputs
    /\ ba' = r.obj
    /\ ba0' = r.obj
    /\ ctorErr' = r.err
    /\ UNCHANGED <<loads, last, tokVars, mergeVars>>

\* BuilderArgs(...)
DoConstruct ==
    \E s \in CtorInputs, cuda_available \in BOOLEAN :
        Constructed(PostInit(s, cuda_available), "init", s)

\* BuilderArgs.from_args(args)
DoFromArgs ==
    \E args \in ArgsSet, cuda_available \in BOOLEAN :
        Constructed(FromArgs(args, cuda_available), "from_args", args)

\* BuilderArgs.from_speculative_args(args)
DoFromSpeculativeArgs ==
    \E args \in ArgsSet, cuda_available \in BOOLEAN :
        Constructed(FromSpeculativeArgs(args, cuda_available),
                    "from_speculative_args", args)

\* _initialize_model(builder_args, quantize, ...)
DoInitializeModel ==
    /\ pc = "constructed"
    /\ loads < MaxLoads
    /\ \E quantize \in BOOLEAN :
       \E env \in EnvsFor(ba, quantize) :
          LET m == InitializeModel(ba, quantize, env)
          IN  /\ ba' = m.b
              /\ last' = [called |-> TRUE, branch |-> Branch(ba), before |-> ba,
                          quantize |-> quantize, ops |-> m.ops, devs |-> m.devs,
                          entered |-> m.entered, err |-> m.err,
                          metaDevice |-> env.metaDevice]
    /\ loads' = loads + 1
    /\ UNCHANGED <<pc, origin, given, ba0, ctorErr, tokVars, mergeVars>>

Init == BuilderInit /\ TokIdle /\ MergeIdle

Next ==
    \/ DoConstruct
    \/ DoFromArgs
    \/ DoFromSpeculativeArgs
    \/ DoInitializeModel

Spec == Init /\ [][Next]_vars

----------------------------------------------------------------------------
(* Tokenizer specification *)

N_tokenizer_model == <<"t","o","k","e","n","i","z","e","r",".","m","o","d","e","l">>
N_tokenizer_json == <<"t","o","k","e","n","i","z","e","r",".","j","s","o","n">>

\* the keyword arguments TokenizerArgs can be constructed with
TokenizerInputs ==
    [tokenizer_path : {P(N_base, N_tokenizer_model, "file"),
                       P(N_base, N_tokenizer_json, "file")},
     is_sentencepiece : BOOLEAN, is_tiktoken : BOOLEAN, is_hf_tokenizer : BOOLEAN,
     t : {"None", "preset"}]

\* the models validate_model can be handed
Models == {NoModel} \cup [exists : {TRUE}, use_tiktoken : BOOLEAN, use_hf_tokenizer : BOOLEAN]

TokInit ==
    /\ tok = NoTok
    /\ tokEnv \in SUBSET Formats
    /\ tokRes = Idle

\* TokenizerArgs(...)
DoTokenizerArgs ==
    /\ tok = NoTok
    /\ \E f \in TokenizerInputs : tok' = TokenizerPostInit(f, tokEnv)
    /\ UNCHANGED <<tokEnv, tokRes, builderVars, mergeVars>>

\* tokenizer_args.validate_model(model)
DoValidateModel ==
    /\ tok # NoTok
    /\ \E model \in Models :
          tokRes' = [model |-> model, self |-> tok, res |-> validate_model(tok, model)]
    /\ UNCHANGED <<tok, tokEnv, builderVars, mergeVars>>

InitTok == BuilderInit /\ TokInit /\ MergeIdle

NextTok == DoTokenizerArgs \/ DoValidateModel

SpecTok == InitTok /\ [][NextTok]_vars

----------------------------------------------------------------------------
(* Checkpoint merge specification *)

K_wo == <<"a","t","t","n",".","w","o",".","w","e","i","g","h","t">>
K_w2 == <<"f","f","n",".","w","2",".","w","e","i","g","h","t">>
K_w1 == <<"f","f","n",".","w","1",".","w","e","i","g","h","t">>
K_two == <<"t","w","o",".","w","e","i","g","h","t">>
K_norm == <<"n","o","r","m",".","w","e","i","g","h","t">>

\* the key sets of shard 0
KeySets == {{K_wo}, {K_w2}, {K_w1}, {K_two}, {K_w2, K_w1}}

\* entries of the shards that are compared, and of the other two
ComparedEntries == {0, 1, 2}
OtherEntries == {0, 2}

Tensor(v) == <<<<v>>>>

\* the four shard mappings over the keys ks; shard `without[1]` lacks the key
\* `without[2]`, and the shards other than shard 0 also hold the key K_norm
ShardSets(ks) ==
    { [i \in 1..NumShards |->
          [key \in (IF i = without[1] THEN ks \ {without[2]} ELSE ks)
                   \cup (IF i > 1 THEN {K_norm} ELSE {}) |->
              IF key = K_norm THEN Tensor(i) ELSE Tensor(vals[i][key])]] :
        vals \in [1..NumShards ->
                    [ks -> ComparedEntries]],
        without \in {<<0, K_norm>>} \cup ((2..NumShards) \X ks) }

\* shards 2 and 3 draw their entries from OtherEntries
WellFormedShards(sh, ks) ==
    \A key \in ks : \A i \in 3..NumShards :
        key \in DOMAIN sh[i] => sh[i][key][1][1] \in OtherEntries

MergeInit ==
    /\ \E ks \in KeySets :
          /\ cps \in ShardSets(ks)
          /\ WellFormedShards(cps, ks)
    /\ checkpoint = Idle

\* the merge loop of _load_checkpoint
DoMerge ==
    /\ checkpoint = Idle
    /\ checkpoint' = Merge(cps)
    /\ UNCHANGED <<cps, builderVars, tokVars>>

InitMerge == BuilderInit /\ TokIdle /\ MergeInit

NextMerge == DoMerge

SpecMerge == InitMerge /\ [][NextMerge]_vars

----------------------------------------------------------------------------
(* Properties of BuilderArgs construction *)

\* the fields the constructor was run on
CtorFields == IF origin = "init" THEN given ELSE FromArgsFields(given)

\* the constructor itself was reached
CtorRan == pc # "start" /\ (origin = "init" \/ given.has_dcp_dir)

\* what the filesystem must hold at a source field's path
WantedKind(field) == IF field = "checkpoint_dir" THEN "dir" ELSE "file"

NoExistingSource(f) ==
    \A field \in SourceFields :
        f[field] = None \/ f[field].kind # WantedKind(field)

\* C1: when none of the six source fields names an existing file (directory
\* for checkpoint_dir), construction fails with an error and produces no
\* BuilderArgs, whatever dcp_dir, params_path and params_table are.
C1_NoSourceFails ==
    (CtorRan /\ NoExistingSource(CtorFields))
        => (pc = "failed" /\ ba = NoConfig /\ ctorErr # "none")

\* a construction that failed although dcp_dir and the params fields exist
\* and source fields are set, because no source field exists on disk
C1_Witness ==
    /\ pc = "failed" /\ origin = "init"
    /\ NoExistingSource(given)
    /\ given.dcp_dir.kind = "dir" /\ given.params_path.kind = "file"
    /\ given.params_table # NoName
    /\ given.dso_path # None /\ given.checkpoint_path # None
    /\ ctorErr = E_NoSource

\* C9: with both aoti_package_path and pte_path set, construction fails
\* whatever the other fields are and whatever exists on disk.
C9_PackageAndPteFails ==
    (CtorRan /\ CtorFields.aoti_package_path # None /\ CtorFields.pte_path # None)
        => (pc = "failed" /\ ba = NoConfig /\ ctorErr # "none")

\* a construction rejected for the conflict alone: sources exist on disk,
\* dso_path among them
C9_Witness ==
    /\ pc = "failed" /\ origin = "init"
    /\ given.aoti_package_path.kind = "file" /\ given.pte_path.kind = "file"
    /\ given.dso_path.kind = "file"
    /\ ctorErr = E_Both

NoCompiledSource(b) ==
    b.dso_path = None /\ b.aoti_package_path = None /\ b.pte_path = None

\* C2: a BuilderArgs from from_args or from_speculative_args has
\* prefill_possible true exactly when dso_path, aoti_package_path and pte_path
\* are all unset, in every state it reaches.
C2_PrefillIffNoCompiled ==
    (pc = "constructed" /\ origin \in {"from_args", "from_speculative_args"})
        => (ba.prefill_possible <=> NoCompiledSource(ba))

LoaderOps ==
    {"Model.from_gguf", "torch.load(checkpoint_path)", "torch.load(checkpoint_dir)"}

OpsOf(call) == {call.ops[i] : i \in 1..Len(call.ops)}

HasPlainSource(b) ==
    b.checkpoint_path # None \/ b.checkpoint_dir # None \/ b.gguf_path # None

ExistingArtifact(f) ==
    /\ \E field \in {"dso_path", "aoti_package_path", "pte_path"} :
          f[field] # None /\ f[field].kind = "file"
    /\ ~(f.aoti_package_path # None /\ f.pte_path # None)

\* C3: with an existing compiled artifact given together with a checkpoint or
\* GGUF source, construction succeeds with those fields as given, and
\* _initialize_model runs neither the GGUF loader nor the checkpoint loader.
C3_PlainSourcesUnused ==
    /\ (CtorRan /\ origin = "init" /\ ExistingArtifact(given) /\ HasPlainSource(given))
          => /\ pc = "constructed"
             /\ ba0.checkpoint_path = given.checkpoint_path
             /\ ba0.checkpoint_dir = given.checkpoint_dir
             /\ ba0.gguf_path = given.gguf_path
    /\ (pc = "constructed" /\ last.called
          /\ HasCompiledSource(last.before) /\ HasPlainSource(last.before))
          => OpsOf(last) \cap LoaderOps = {}

----------------------------------------------------------------------------
(* Properties of the checkpoint merge *)

Merged == checkpoint # Idle /\ checkpoint.err = "none"

\* equality within the tolerance, for entries far below 1e-3
WithinTolerance(x, y) == Abs(x[1][1] - y[1][1]) <= 1

\* out is the four one-entry tensors laid out along the rows (axis 0)
StackedRows(out, v1, v2, v3, v4) ==
    out = << <<v1[1][1]>>, <<v2[1][1]>>, <<v3[1][1]>>, <<v4[1][1]>> >>

\* out is the four one-entry tensors laid out along the columns (axis 1)
StackedColumns(out, v1, v2, v3, v4) ==
    out = << <<v1[1][1], v2[1][1], v3[1][1], v4[1][1]>> >>

ColumnParallel(key) == EndsWith(key, S_wo_weight) \/ EndsWith(key, S_w2_weight)

\* C4: the merged mapping has exactly the keys of shard 0; a key whose shard 0
\* and shard 1 values agree within tolerance keeps shard 0's value whatever
\* shards 2 and 3 hold; any other key holds the four shards' values in rank
\* order, along axis 1 for keys ending in wo.weight or w2.weight and along
\* axis 0 otherwise.
C4_MergeRule ==
    Merged =>
        /\ DOMAIN checkpoint.out = DOMAIN cps[1]
        /\ \A key \in DOMAIN cps[1] :
              IF WithinTolerance(cps[1][key], cps[2][key])
              THEN checkpoint.out[key] = cps[1][key]
              ELSE IF ColumnParallel(key)
              THEN StackedColumns(checkpoint.out[key], cps[1][key], cps[2][key],
                                  cps[3][key], cps[4][key])
              ELSE StackedRows(checkpoint.out[key], cps[1][key], cps[2][key],
                               cps[3][key], cps[4][key])

\* a merge with a partitioned w2.weight key and a replicated key whose
\* shard 1 differs within tolerance and whose shard 3 is far off
C4_Witness ==
    /\ Merged
    /\ K_w2 \in DOMAIN cps[1] /\ K_w1 \in DOMAIN cps[1]
    /\ cps[1][K_w2] = Tensor(0) /\ cps[2][K_w2] = Tensor(2)
    /\ checkpoint.out[K_w2] = << <<0, 2, cps[3][K_w2][1][1], cps[4][K_w2][1][1]>> >>
    /\ cps[1][K_w1] = Tensor(1) /\ cps[2][K_w1] = Tensor(2)
    /\ K_w1 \in DOMAIN cps[4] /\ cps[4][K_w1] = Tensor(0)
    /\ checkpoint.out[K_w1] = Tensor(1)

----------------------------------------------------------------------------
(* Properties of TokenizerArgs *)

Priority == <<"tiktoken", "sentencepiece", "hf_tokenizer">>

\* the position of the first format that loads, 4 when none does
FirstLoadable(env) ==
    IF Priority[1] \in env THEN 1
    ELSE IF Priority[2] \in env THEN 2
    ELSE IF Priority[3] \in env THEN 3 ELSE 4

TagOf(x, format) ==
    CASE format = "tiktoken" -> x.is_tiktoken
      [] format = "sentencepiece" -> x.is_sentencepiece
      [] format = "hf_tokenizer" -> x.is_hf_tokenizer

TrueTags(x) == {format \in Formats : TagOf(x, format)}

\* C5: construction tries the formats in priority order up to the first that
\* loads; its tag alone is true and its handle is stored, and when none loads
\* all tags are false and t is empty.
C5_FirstLoadableWins ==
    tok # NoTok =>
        LET n == FirstLoadable(tokEnv)
        IN  /\ tok.tried = SubSeq(Priority, 1, IF n = 4 THEN 3 ELSE n)
            /\ TrueTags(tok) = IF n = 4 THEN {} ELSE {Priority[n]}
            /\ (n = 4) <=> (tok.t = "None")
            /\ (n = 1) => tok.t = "TiktokenTokenizer"
            /\ (n = 2) => tok.t = "SentencePieceProcessor"
            /\ (n = 3) => tok.t = "HFTokenizer"

\* a path the second format loads but the first does not, constructed with
\* other tags passed in
C5_Witness ==
    /\ tok # NoTok
    /\ tokEnv = {"sentencepiece", "hf_tokenizer"}
    /\ tok.fields.is_tiktoken /\ tok.fields.is_hf_tokenizer /\ ~tok.fields.is_sentencepiece
    /\ ~tok.is_tiktoken /\ tok.is_sentencepiece /\ ~tok.is_hf_tokenizer
    /\ tok.tried = <<"tiktoken", "sentencepiece">>

\* the formats a model declares
Declared(model) ==
    {format \in Formats :
        \/ format = "tiktoken" /\ model.use_tiktoken
        \/ format = "hf_tokenizer" /\ model.use_hf_tokenizer
        \/ format = "sentencepiece" /\ ~model.use_tiktoken /\ ~model.use_hf_tokenizer}

\* C6: validate_model passes without a model; with a model it fails exactly
\* when the number of true tags is not one or the true tag is not the format
\* the model declares; it leaves the tokenizer tags as they were.
C6_ValidateModel ==
    tokRes # Idle =>
        /\ tokRes.model = NoModel => tokRes.res.err = "none"
        /\ tokRes.model # NoModel =>
              ((tokRes.res.err # "none") <=>
                  \/ Cardinality(TrueTags(tokRes.self)) # 1
                  \/ ~(TrueTags(tokRes.self) \subseteq Declared(tokRes.model)))
        /\ tok = tokRes.self

\* a sentencepiece tokenizer rejected by a model that declares hf tokenizer
C6_Witness ==
    /\ tokRes # Idle /\ tokRes.model # NoModel
    /\ tokRes.model.use_hf_tokenizer /\ ~tokRes.model.use_tiktoken
    /\ tok.is_sentencepiece
    /\ tokRes.res.err = "RuntimeError: model-specified tokenizer does not match"

----------------------------------------------------------------------------
(* Properties of from_args and of the loading pipeline *)

\* the source paths from_args works with
PresentPaths(args) ==
    {p \in {ResolvedCheckpointPath(args),
            IF args.has_checkpoint_dir THEN args.checkpoint_dir ELSE None,
            args.dso_path, args.pte_path, args.aoti_package_path, args.gguf_path} :
        p # None}

ChatName(name) == Contains(S_chat, lower(name)) \/ Contains(S_instruct, lower(name))

\* C8 as stated: without the flag, is_chat_model is true exactly when the
\* basename of some present source path contains "chat" or "instruct".
C8_BasenameHeuristic ==
    (pc = "constructed" /\ origin = "from_args")
        => (ba.is_chat_model <=>
               (given.is_chat_model \/ \E p \in PresentPaths(given) : ChatName(p.base)))

\* C8 amended: the name inspected for a path is the name of its parent
\* directory when the path is an existing file, and the path's own last
\* component (one trailing slash removed) otherwise; is_chat_model is true
\* when the flag is passed, and otherwise exactly when such a name contains
\* "chat" or "instruct", compared case-insensitively.
C8_InspectedNameHeuristic ==
    (pc = "constructed" /\ origin = "from_args")
        => (ba.is_chat_model <=>
               (given.is_chat_model
                \/ \E p \in PresentPaths(given) :
                      ChatName(IF p.kind = "file" THEN p.dir ELSE p.base)))

\* a named model whose checkpoint file lives in a directory named
\* "8B-Instruct", with no flag and no other source
C8_Witness ==
    /\ pc = "constructed" /\ origin = "from_args"
    /\ given.model = "llama3-instruct" /\ ~given.is_chat_model
    /\ PresentPaths(given) = {P(N_Instruct, N_model_pth, "file")}
    /\ ba.is_chat_model

\* the device is one the strategy's artifact kind does not support
Unsupported(branch, device) ==
    \/ branch \in {"dso", "aoti"} /\ device \notin {"cpu", "cuda"}
    \/ branch = "pte" /\ device # "cpu"

Returned(call) == call.err.type = "none"

\* C7 as stated: in each compiled-artifact branch an unsupported device is
\* never handed to the load, and the device is CPU when the call returns.
C7_CpuOnReturn ==
    (pc = "constructed" /\ last.called /\ Unsupported(last.branch, last.before.device))
        => /\ last.devs \subseteq {"cpu"}
           /\ Returned(last) => ba.device = "cpu"

\* C7 amended: in each compiled-artifact branch an unsupported device is
\* never handed to the load, which runs on CPU; when the call returns the
\* device is CPU in the DSO and PTE branches, and in the AOTI package branch
\* it is the device named by the package's metadata.
C7_CpuOrPackageDevice ==
    (pc = "constructed" /\ last.called /\ Unsupported(last.branch, last.before.device))
        => /\ last.devs \subseteq {"cpu"}
           /\ Returned(last) =>
                 ba.device = IF last.branch = "aoti" THEN last.metaDevice ELSE "cpu"

\* a DSO configured for mps whose load returned
C7_Witness ==
    /\ pc = "constructed" /\ last.called
    /\ last.branch = "dso" /\ last.before.device = "mps"
    /\ Returned(last) /\ "aot_load" \in OpsOf(last)
    /\ last.devs = {"cpu"} /\ ba.device = "cpu"

Except(b, fields) == [f \in (DOMAIN b) \ fields |-> b[f]]

\* C10 as stated: the loading pipeline changes no field but gguf_kwargs.
C10_OnlyGgufKwargsChanges ==
    pc = "constructed" => Except(ba, {"gguf_kwargs"}) = Except(ba0, {"gguf_kwargs"})

\* C10 amended: the loading pipeline changes no field but gguf_kwargs, device
\* and checkpoint_path; device changes only in a compiled-artifact branch
\* (to CPU or to the AOTI package's device), and checkpoint_path only to None,
\* when checkpoint_dir is set.
C10_FrameOfLoads ==
    pc = "constructed" =>
        /\ Except(ba, {"gguf_kwargs", "device", "checkpoint_path"})
              = Except(ba0, {"gguf_kwargs", "device", "checkpoint_path"})
        /\ ba.device # ba0.device => HasCompiledSource(ba0)
        /\ ba.checkpoint_path # ba0.checkpoint_path
              => (ba.checkpoint_path = None /\ ba0.checkpoint_dir # None)

\* two load calls, the last one failed, after which checkpoint_path is gone
\* and everything else but gguf_kwargs is as constructed
C10_Witness ==
    /\ pc = "constructed" /\ loads >= 2 /\ ~Returned(last)
    /\ ba0.checkpoint_path # None /\ ba.checkpoint_path = None
    /\ ba0.precision = "float32"
    /\ Except(ba, {"gguf_kwargs", "checkpoint_path"})
          = Except(ba0, {"gguf_kwargs", "checkpoint_path"})

----------------------------------------------------------------------------
(* Properties of the GGUF auxiliary flags *)

\* C11: gguf_kwargs is None whenever no _initialize_model call is running, a
\* call that set it having cleared it before it ended, and no call trips an
\* "is None" assertion on it.
C11_KwargsReleased ==
    pc = "constructed" =>
        /\ ba.gguf_kwargs = NoKwargs
        /\ last.called => last.err.type # "AssertionError"

----------------------------------------------------------------------------
(* Properties of the strategy dispatch *)

\* the strategy the priority order DSO, AOTI package, PTE, default selects
PriorityStrategy(b) ==
    IF b.dso_path # None THEN "dso"
    ELSE IF b.aoti_package_path # None THEN "aoti"
    ELSE IF b.pte_path # None THEN "pte"
    ELSE "default"

\* the position of op among the external calls of a call, 0 when not made
Position(call, op) ==
    IF op \in OpsOf(call) THEN CHOOSE i \in 1..Len(call.ops) : call.ops[i] = op ELSE 0

\* op1, when made, comes before op2, when made
InOrder(call, op1, op2) ==
    (op1 \in OpsOf(call) /\ op2 \in OpsOf(call))
        => Position(call, op1) < Position(call, op2)

\* the calls only the default strategy makes after its load
DefaultOnlyOps == {"quantize_model", "device_sync(quantize)", "setup_caches", "model.to(dtype)"}

\* the calls that bind each kind of compiled artifact
BindingOps(branch) ==
    CASE branch = "dso" -> {"aot_load"}
      [] branch = "aoti" -> {"load_package", "get_metadata"}
      [] branch = "pte" -> {"PTEModel"}
      [] OTHER -> {}

\* C12: every _initialize_model call executes exactly one strategy, the one
\* the priority order DSO, AOTI package, PTE, default selects; quantization
\* (when a quantize spec is given) and cache set-up (when setup_caches is set)
\* happen only in the default strategy, in the order load, quantize, cache
\* set-up, cast to precision.
C12_OneStrategyInOrder ==
    (pc = "constructed" /\ last.called) =>
        /\ last.entered = <<PriorityStrategy(last.before)>>
        /\ \A other \in {"dso", "aoti", "pte"} \ {PriorityStrategy(last.before)} :
              OpsOf(last) \cap BindingOps(other) = {}
        /\ PriorityStrategy(last.before) # "default"
              => OpsOf(last) \cap DefaultOnlyOps = {}
        /\ "quantize_model" \in OpsOf(last) => last.quantize
        /\ "setup_caches" \in OpsOf(last) => last.before.setup_caches # None
        /\ (Returned(last) /\ PriorityStrategy(last.before) = "default") =>
              /\ last.quantize <=> "quantize_model" \in OpsOf(last)
              /\ (last.before.setup_caches # None) <=> "setup_caches" \in OpsOf(last)
              /\ "model.to(dtype)" \in OpsOf(last)
        /\ InOrder(last, "load_state_dict", "quantize_model")
        /\ InOrder(last, "Model.from_gguf", "quantize_model")
        /\ InOrder(last, "model.to(device)", "quantize_model")
        /\ InOrder(last, "model.to(device)", "setup_caches")
        /\ InOrder(last, "quantize_model", "setup_caches")
        /\ InOrder(last, "quantize_model", "model.to(dtype)")
        /\ InOrder(last, "setup_caches", "model.to(dtype)")

\* C12 for the calls that get past the gguf_kwargs assertions
C12_DispatchedCalls ==
    (pc = "constructed" /\ last.called /\ last.err.type = "AssertionError")
        \/ C12_OneStrategyInOrder

----------------------------------------------------------------------------
(* Properties of the errors of the compiled-artifact branches *)

\* the field whose path the RuntimeError of a branch names
ArtifactField(branch) ==
    CASE branch = "dso" -> "dso_path"
      [] branch = "aoti" -> "aoti_package_path"
      [] branch = "pte" -> "pte_path"
      [] OTHER -> ""

\* the call ran a compiled-artifact branch and ended with an exception
ArtifactCallFailed(call) ==
    /\ call.called
    /\ call.entered # <<>>
    /\ call.entered[1] \in {"dso", "aoti", "pte"}
    /\ ~Returned(call)

\* the exception is the RuntimeError that names the artifact path of the branch
NamesArtifact(call) ==
    /\ call.err.type = "RuntimeError"
    /\ call.err.names = ArtifactField(call.entered[1])

\* C13 (as stated): in the DSO, AOTI package and PTE branches every failure,
\* that of the base-model load before the binding included, reaches the caller
\* as the load error naming the artifact path, and nothing else escapes.
C13_EveryFailureNamesArtifact ==
    (pc = "constructed" /\ ArtifactCallFailed(last)) => NamesArtifact(last)

\* C13 (amended): in the DSO, AOTI package and PTE branches a failure of a
\* binding step (aot_load; load_package, get_metadata; PTEModel) reaches the
\* caller as the RuntimeError naming the artifact path, and a failure of any
\* step before it (base-model load, device_sync, ModelArgs.from_params)
\* escapes as the exception that step raised (that of the external call, or
\* the AssertionError or AttributeError of the loader), naming no artifact
\* path.
C13_BindingFailureNamesArtifact ==
    (pc = "constructed" /\ ArtifactCallFailed(last)) =>
        IF last.err.at \in BindingOps(last.entered[1])
        THEN NamesArtifact(last)
        ELSE /\ last.err.type \in {"Exception", "AssertionError", "AttributeError"}
             /\ last.err.names = ""
             /\ last.err.type = "Exception" => last.err.at = last.ops[Len(last.ops)]

\* a DSO call whose base model loaded and whose aot_load then failed
C13_Witness ==
    /\ pc = "constructed"
    /\ ArtifactCallFailed(last)
    /\ last.entered = <<"dso">>
    /\ last.err = [type |-> "RuntimeError", at |-> "aot_load", names |-> "dso_path"]
    /\ "load_state_dict" \in OpsOf(last)

----------------------------------------------------------------------------
(* Properties of the draft-model configuration *)

\* the fields from_args resolves for the main model that are neither a
\* source nor a device, precision or distributed setting
MainOnlyFields ==
    {"params_path", "params_table", "dcp_dir", "is_chat_model", "setup_caches",
     "max_seq_length"}

\* C14: the configuration from_speculative_args returns has the draft
\* checkpoint path as checkpoint_path, no checkpoint_dir, gguf_path, dso_path,
\* aoti_package_path or pte_path, the device, precision and distributed
\* settings of the main configuration, and the default in params_path,
\* params_table, dcp_dir, is_chat_model, setup_caches and max_seq_length.
C14_DraftStrippedToDefaults ==
    (pc = "constructed" /\ origin = "from_speculative_args" /\ ctorErr = "none") =>
        /\ ba0.checkpoint_path = given.draft_checkpoint_path
        /\ \A f \in {"checkpoint_dir", "gguf_path", "dso_path", "aoti_package_path",
                     "pte_path"} : ba0[f] = None
        /\ \E cuda_available \in BOOLEAN :
              /\ FromArgs(given, cuda_available).err = "none"
              /\ \A f \in {"device", "precision", "distributed", "pp", "tp"} :
                    ba0[f] = FromArgs(given, cuda_available).obj[f]
        /\ \A f \in MainOnlyFields : ba0[f] = BuilderDefaults[f]

\* C14 without its last part: the six resets and the kept settings
C14_DraftSourcesReset ==
    (pc = "constructed" /\ origin = "from_speculative_args" /\ ctorErr = "none") =>
        /\ ba0.checkpoint_path = given.draft_checkpoint_path
        /\ \A f \in {"checkpoint_dir", "gguf_path", "dso_path", "aoti_package_path",
                     "pte_path"} : ba0[f] = None
        /\ \E cuda_available \in BOOLEAN :
              /\ FromArgs(given, cuda_available).err = "none"
              /\ \A f \in {"device", "precision", "distributed", "pp", "tp"} :
                    ba0[f] = FromArgs(given, cuda_available).obj[f]

====
